---- MODULE Spec2Model ----
(***************************************************************************)
(* Picklist generation: the baseline builder (generate_picklists.py) and   *)
(* the scheduling builder (Optimized/generate_picklists_optimized.py).     *)
(*                                                                         *)
(* Conventions of the model                                                *)
(*  - times are whole seconds counted from midnight of day 0;              *)
(*  - weights are whole kilograms (the code's floats after normalisation); *)
(*  - zone names, order ids and store ids are naturals standing for the    *)
(*    strings of the CSV, ordered as the strings are;                      *)
(*  - an order line carries `line`, the label of its DataFrame row, so     *)
(*    that the items cut from it can be traced back to it;                 *)
(*  - the columns sku and bin_rank are copied through by the code and      *)
(*    never read; they are left out.                                       *)
(***************************************************************************)
EXTENDS Integers, Sequences, FiniteSets, TLC

VARIABLES
    impl,           \* "baseline" | "optimized": which script runs
    df,             \* the order lines after sort_values
    shifts,         \* PICKER_SHIFTS, the configured shift roster
    groups,         \* group keys <<zone, fragile>> in iteration order
    gi,             \* index of the group being processed
    ri,             \* index (within the group) of the row being processed
    qty,            \* remaining quantity of that row (qty / remaining)
    items,          \* open accumulator: items of the current picklist
    cur_units,      \* units in the accumulator
    cur_weight,     \* weight in the accumulator
    pl_seq,         \* baseline: picklist number inside process_zone_group
    picklist_id,    \* optimized: running picklist id
    picker_heap,    \* optimized: set of <<available_at, pid, shift_end>>
    summary,        \* summary rows appended so far
    files,          \* picklists directory: file name -> item rows
    summary_csv,    \* Summary.csv as written at the end of the run
    sealed,         \* history: every picklist handed to flush / finalize
    assigned,       \* history: every accepted reservation
    now,            \* wall clock reading (datetime.now())
    hashseed,       \* string hash seed of the process (set iteration order)
    run,            \* number of the run over this input (1 or 2)
    prev,           \* outputs of the previous run over the same input
    pc              \* "loop" | "groupend" | "done" | "raised"

vars == <<impl, df, shifts, groups, gi, ri, qty, items, cur_units, cur_weight,
          pl_seq, picklist_id, picker_heap, summary, files, summary_csv,
          sealed, assigned, now, hashseed, run, prev, pc>>

----------------------------------------------------------------------------
(* Program constants *)

MAX_UNITS == 2000
MAX_WEIGHT == 200
FRAGILE_WEIGHT == 50

ENTRY_TO_ZONE == 120
BIN_TO_BIN == 30
PICK_PER_UNIT == 5
ZONE_TO_STAGE == 120
UNLOAD_PER_ORDER == 30

DaySeconds == 86400

\* "HH:MM" of a shift template as seconds after midnight
Clock(h, m) == h * 3600 + m * 60

PICKER_SHIFTS ==
    << [name |-> "Morning", start |-> Clock(8, 0),  end |-> Clock(17, 0), count |-> 40],
       [name |-> "General", start |-> Clock(10, 0), end |-> Clock(19, 0), count |-> 30],
       [name |-> "Night1",  start |-> Clock(20, 0), end |-> Clock(5, 0),  count |-> 45],
       [name |-> "Night2",  start |-> Clock(21, 0), end |-> Clock(7, 0),  count |-> 35] >>

----------------------------------------------------------------------------
(* Bounds of the model *)

MaxLines == 3       \* order lines in the input
MaxNow == 2         \* clock readings 0 .. MaxNow

----------------------------------------------------------------------------
(* Generic helpers *)

Range(s) == { s[i] : i \in 1..Len(s) }

RECURSIVE SumSeq(_)
SumSeq(s) == IF s = <<>> THEN 0 ELSE Head(s) + SumSeq(Tail(s))

Min2(a, b) == IF a <= b THEN a ELSE b

MinOf(S) == CHOOSE x \in S : \A y \in S : x <= y

\* lexicographic < on tuples of integers of equal length
RECURSIVE LexLess(_, _)
LexLess(a, b) ==
    IF a = <<>> THEN FALSE
    ELSE IF Head(a) # Head(b) THEN Head(a) < Head(b)
    ELSE LexLess(Tail(a), Tail(b))

\* stable insertion of the pair x = <<key, value>> into the sorted sequence s,
\* after the pairs of equal key
RECURSIVE InsertSorted(_, _)
InsertSorted(x, s) ==
    IF s = <<>> THEN <<x>>
    ELSE IF LexLess(x[1], Head(s)[1]) THEN <<x>> \o s
    ELSE <<Head(s)>> \o InsertSorted(x, Tail(s))

RECURSIVE SortPairs(_)
SortPairs(s) ==
    IF s = <<>> THEN <<>>
    ELSE InsertSorted(s[Len(s)], SortPairs(SubSeq(s, 1, Len(s) - 1)))

\* stable sort of s by the keys keys[i] of its elements (pandas sort_values
\* with several key columns)
SortBy(s, keys) ==
    LET sorted == SortPairs([ i \in 1..Len(s) |-> <<keys[i], s[i]>> ])
    IN  [ i \in 1..Len(s) |-> sorted[i][2] ]

\* the elements of a set of integers as an ascending sequence
RECURSIVE AscSeq(_)
AscSeq(S) ==
    IF S = {} THEN <<>>
    ELSE LET m == CHOOSE x \in S : \A y \in S : x <= y
         IN  <<m>> \o AscSeq(S \ {m})

Reverse(s) == [ i \in 1..Len(s) |-> s[Len(s) + 1 - i] ]

\* the sum of F[x] over the x of a finite set S
RECURSIVE SumFn(_, _)
SumFn(S, F) ==
    IF S = {} THEN 0
    ELSE LET x == CHOOSE y \in S : TRUE
         IN  F[x] + SumFn(S \ {x}, F)

----------------------------------------------------------------------------
(* Reading and ordering the input *)

FragRank(f) == IF f THEN 1 ELSE 0

\* optimized: df.sort_values(by=["cutoff_time", "pod_priority"])
SortKeyOptimized(l) == <<l.cutoff, l.priority>>

\* baseline: df.sort_values(by=[cutoff_col, priority_col, order_col])
SortKeyBaseline(l) == <<l.cutoff, l.priority, l.order_id>>

SortValues(im, input) ==
    IF im = "optimized"
    THEN SortBy(input, [ i \in 1..Len(input) |-> SortKeyOptimized(input[i]) ])
    ELSE SortBy(input, [ i \in 1..Len(input) |-> SortKeyBaseline(input[i]) ])

\* the zones of the lines of one fragile class, ascending (groupby sorts keys)
ZonesOf(d, f) == AscSeq({ d[i].zone : i \in { j \in 1..Len(d) : d[j].fragile = f } })

KeysOfClass(d, f) == [ i \in 1..Len(ZonesOf(d, f)) |-> <<ZonesOf(d, f)[i], f>> ]

\* the keys ranked by fragile class before zone
GroupKeyRankFragileFirst(k) == <<FragRank(k[2]), k[1]>>

\* optimized: df.groupby(["zone", "fragile"]) iterates its keys in sorted
\* order, zone first, then False before True
GroupKeyRank(k) == <<k[1], FragRank(k[2])>>

GroupKeysOptimized(d) ==
    LET keys == KeysOfClass(d, FALSE) \o KeysOfClass(d, TRUE)
    IN  SortBy(keys, [ i \in 1..Len(keys) |-> GroupKeyRank(keys[i]) ])

\* baseline: every non-fragile zone (sorted), then every fragile zone (sorted)
GroupKeysBaseline(d) == KeysOfClass(d, FALSE) \o KeysOfClass(d, TRUE)

GroupKeys(im, d) ==
    IF im = "optimized" THEN GroupKeysOptimized(d) ELSE GroupKeysBaseline(d)

\* the rows of a zone, whatever their fragile class
GroupRowsByZone(d, k) == SelectSeq(d, LAMBDA l : l.zone = k[1])

\* the rows of one group, in the order of df
GroupRows(d, k) == SelectSeq(d, LAMBDA l : l.zone = k[1] /\ l.fragile = k[2])

\* base_date = df["cutoff_time"].min().date(), as the second of its midnight
BaseDate(d) ==
    (MinOf({ d[i].cutoff : i \in 1..Len(d) }) \div DaySeconds) * DaySeconds

----------------------------------------------------------------------------
(* Picker pool *)

RECURSIVE CountBefore(_, _)
\* pid of the first picker of template k: the head counts of the earlier ones
CountBefore(roster, k) ==
    IF k <= 1 THEN 0 ELSE roster[k - 1].count + CountBefore(roster, k - 1)

ShiftStart(tpl, base) == base + tpl.start

\* the end clock always taken on the base date
ShiftEndSameDay(tpl, base) == base + tpl.end

ShiftEnd(tpl, base) ==
    IF base + tpl.end <= base + tpl.start
    THEN base + tpl.end + DaySeconds
    ELSE base + tpl.end

\* init_pickers: the heap as the set of its entries <<available_at, pid, shift_end>>
init_pickers(roster, base) ==
    UNION { { << ShiftStart(roster[k], base),
                 CountBefore(roster, k) + n,
                 ShiftEnd(roster[k], base) >> : n \in 0..(roster[k].count - 1) }
            : k \in 1..Len(roster) }

\* ties on available_at broken by the hash seed instead of the picker id
HeapMinHashed(heap) ==
    CHOOSE p \in heap :
        \A q \in heap :
            \/ p = q
            \/ p[1] < q[1]
            \/ p[1] = q[1] /\ (IF hashseed = 0 THEN p[2] < q[2] ELSE p[2] > q[2])

\* the heap ordered by picker id alone
HeapMinByPid(heap) == CHOOSE p \in heap : \A q \in heap : p[2] <= q[2]

\* heapq.heappop: the least entry in tuple order
HeapMin(heap) == CHOOSE p \in heap : \A q \in heap : p = q \/ LexLess(p, q)

----------------------------------------------------------------------------
(* Execution time *)

TotalUnits(its) == SumSeq([ i \in 1..Len(its) |-> its[i].qty ])

TotalWeight(its) == SumSeq([ i \in 1..Len(its) |-> its[i].qty * its[i].unit_weight ])

DistinctBins(its) == Cardinality({ its[i].bin : i \in 1..Len(its) })

DistinctOrders(its) == Cardinality({ its[i].order_id : i \in 1..Len(its) })

\* bins counted per item row instead of per distinct bin
estimate_counting_rows(its) ==
    ENTRY_TO_ZONE
    + Len(its) * BIN_TO_BIN
    + TotalUnits(its) * PICK_PER_UNIT
    + ZONE_TO_STAGE
    + DistinctOrders(its) * UNLOAD_PER_ORDER

estimate_picklist_time(its) ==
    ENTRY_TO_ZONE
    + DistinctBins(its) * BIN_TO_BIN
    + TotalUnits(its) * PICK_PER_UNIT
    + ZONE_TO_STAGE
    + DistinctOrders(its) * UNLOAD_PER_ORDER

----------------------------------------------------------------------------
(* finalize_picklist *)

\* the shift end left unchecked
FitsIgnoringShift(finish, shift_end) == finish >= 0

\* does the popped picker finish inside its shift?
Fits(finish, shift_end) == finish <= shift_end

\* the pickers that were popped and did not fit are pushed back
ReserveKeeping(heap, exec_time) ==
    LET fit == { p \in heap : Fits(p[1] + exec_time, p[3]) }
    IN  IF fit = {} THEN [found |-> FALSE, heap |-> heap]
        ELSE LET p == HeapMin(fit)
                 finish == p[1] + exec_time
             IN  [found |-> TRUE,
                  heap |-> (heap \ {p}) \cup { <<finish, p[2], p[3]>> },
                  pid |-> p[2], start |-> p[1], finish |-> finish,
                  shift_end |-> p[3]]

\* the picker that fits is pushed back as it was popped, its available_at
\* not moved to the finish
ReserveNoAdvance(heap, exec_time) ==
    LET fit == { p \in heap : Fits(p[1] + exec_time, p[3]) }
    IN  IF fit = {} THEN [found |-> FALSE, heap |-> {}]
        ELSE LET p == HeapMin(fit)
             IN  [found |-> TRUE,
                  heap |-> { q \in heap : q = p \/ LexLess(p, q) },
                  pid |-> p[2], start |-> p[1], finish |-> p[1] + exec_time,
                  shift_end |-> p[3]]

\* when no picker fits, the popped pickers are put back into the heap
ReserveRestoring(heap, exec_time) ==
    LET fit == { p \in heap : Fits(p[1] + exec_time, p[3]) }
    IN  IF fit = {} THEN [found |-> FALSE, heap |-> heap]
        ELSE LET p == HeapMin(fit)
                 finish == p[1] + exec_time
             IN  [found |-> TRUE,
                  heap |-> { q \in heap : LexLess(p, q) } \cup { <<finish, p[2], p[3]>> },
                  pid |-> p[2], start |-> p[1], finish |-> finish,
                  shift_end |-> p[3]]

RECURSIVE Reserve(_, _)
\* the while loop over the heap: pop until one picker fits; the popped ones
\* that do not fit are not pushed back
Reserve(heap, exec_time) ==
    IF heap = {} THEN [found |-> FALSE, heap |-> {}]
    ELSE LET p == HeapMin(heap)
             finish == p[1] + exec_time
         IN  IF Fits(finish, p[3])
             THEN [found |-> TRUE,
                   heap |-> (heap \ {p}) \cup { <<finish, p[2], p[3]>> },
                   pid |-> p[2], start |-> p[1], finish |-> finish,
                   shift_end |-> p[3]]
             ELSE Reserve(heap \ {p}, exec_time)

\* on time only when finished strictly before the cutoff
OnTimeStrict(finish, cutoff) == finish < cutoff

\* an item counts as on time when the picklist finishes by its cutoff
OnTime(finish, cutoff) == finish <= cutoff

ValidUnits(its, finish) ==
    SumSeq([ i \in 1..Len(its) |->
               IF OnTime(finish, its[i].cutoff) THEN its[i].qty ELSE 0 ])

EarliestCutoff(its) == MinOf({ its[i].cutoff : i \in 1..Len(its) })

\* the date part of a clock reading
DateOf(t) == t \div 2

\* ",".join(set(...)): the iteration order of a set of strings follows the
\* process's hash seed
SetOrder(S, seed) == IF seed = 0 THEN AscSeq(S) ELSE Reverse(AscSeq(S))

PicklistType(f) == IF f THEN "fragile" ELSE "normal"

FnameOptimized(t, pl_id) == <<DateOf(t), "PL", pl_id>>

SummaryRowOptimized(its, zone, fragile, pl_id, finish, t, seed) ==
    [ picklist_file      |-> FnameOptimized(t, pl_id),
      zone               |-> zone,
      picklist_type      |-> PicklistType(fragile),
      total_units        |-> TotalUnits(its),
      valid_units        |-> ValidUnits(its, finish),
      finish_time        |-> finish,
      earliest_cutoff    |-> EarliestCutoff(its),
      stores_in_picklist |-> SetOrder({ its[i].store : i \in 1..Len(its) }, seed) ]

\* writing a CSV: the file of that name now holds these rows
WriteFile(fs, fname, rows) ==
    [ f \in (DOMAIN fs) \cup {fname} |-> IF f = fname THEN rows ELSE fs[f] ]

\* finalize_picklist(items, picker_heap, summary, zone, fragile, pl_id):
\* the effect on the heap, the summary and the output directory.
\* min() of no items raises ValueError before the heap is touched.
finalize_picklist(its, heap, summ, fs, zone, fragile, pl_id, t, seed) ==
    IF its = <<>>
    THEN [raised |-> TRUE, found |-> FALSE, heap |-> heap, summary |-> summ, files |-> fs]
    ELSE LET r == Reserve(heap, estimate_picklist_time(its))
         IN  IF ~r.found
             THEN [raised |-> FALSE, found |-> FALSE, heap |-> r.heap,
                   summary |-> summ, files |-> fs]
             ELSE [raised |-> FALSE, found |-> TRUE, heap |-> r.heap,
                   summary |-> Append(summ,
                       SummaryRowOptimized(its, zone, fragile, pl_id, r.finish, t, seed)),
                   files |-> WriteFile(fs, FnameOptimized(t, pl_id), its),
                   pid |-> r.pid, start |-> r.start, finish |-> r.finish,
                   shift_end |-> r.shift_end]


----------------------------------------------------------------------------
(* The builder: shared pieces *)

\* cap_weight = FRAGILE_WEIGHT if fragile else MAX_WEIGHT
CapWeight(fragile) == IF fragile THEN FRAGILE_WEIGHT ELSE MAX_WEIGHT

CurKey == groups[gi]
CurRows == GroupRows(df, CurKey)
CurRow == CurRows[ri]

\* the dictionary appended to items for `take` units of a row
Item(row, take) ==
    [ line        |-> row.line,
      order_id    |-> row.order_id,
      store       |-> row.store,
      bin         |-> row.bin,
      qty         |-> take,
      unit_weight |-> row.weight,
      cutoff      |-> row.cutoff ]

\* a picklist handed over for sealing, as the history keeps it
SealedRec(its, id) ==
    [ id |-> id, zone |-> CurKey[1], fragile |-> CurKey[2], items |-> its,
      total_units |-> TotalUnits(its), total_weight |-> TotalWeight(its),
      group |-> gi, midgroup |-> pc = "loop", next_weight |-> CurRow.weight ]

\* append `take` units of the current row, then leave the while loop and step
\* the for loop when the row is used up
AppendTake(take) ==
    /\ items' = Append(items, Item(CurRow, take))
    /\ cur_units' = cur_units + take
    /\ cur_weight' = cur_weight + take * CurRow.weight
    /\ IF qty - take > 0
       THEN /\ qty' = qty - take
            /\ UNCHANGED <<ri, pc>>
       ELSE IF ri < Len(CurRows)
            THEN /\ ri' = ri + 1
                 /\ qty' = CurRows[ri + 1].qty
                 /\ UNCHANGED pc
            ELSE /\ qty' = 0
                 /\ pc' = "groupend"
                 /\ UNCHANGED ri

\* the for loop over the groups moves on, or the run ends
NextGroup(out) ==
    IF gi < Len(groups)
    THEN /\ gi' = gi + 1
         /\ ri' = 1
         /\ qty' = GroupRows(df, groups[gi + 1])[1].qty
         /\ items' = <<>>
         /\ cur_units' = 0
         /\ cur_weight' = 0
         /\ pc' = "loop"
         /\ UNCHANGED summary_csv
    ELSE /\ summary_csv' = out
         /\ pc' = "done"
         /\ UNCHANGED <<gi, ri, qty>>

----------------------------------------------------------------------------
(* The optimized script: generate_picklists *)

\* max_by_weight = int(space_weight // unit_wt) if unit_wt > 0 else qty
MaxByWeightOptimized(space_weight, unit_wt, q) ==
    IF unit_wt > 0 THEN space_weight \div unit_wt ELSE q

\* the unit cap taken one short
TakeOptimizedOneShort(q, units, weight, cap, unit_wt) ==
    Min2(q, Min2(MAX_UNITS - 1 - units,
                 MaxByWeightOptimized(cap - weight, unit_wt, q)))

\* take = min(qty, space_units, max_by_weight)
TakeOptimized(q, units, weight, cap, unit_wt) ==
    Min2(q, Min2(MAX_UNITS - units,
                 MaxByWeightOptimized(cap - weight, unit_wt, q)))

OptTake == TakeOptimized(qty, cur_units, cur_weight, CapWeight(CurKey[2]), CurRow.weight)

\* the reservation an accepted picklist made
AssignedRec(f, id) ==
    [ id |-> id, pid |-> f.pid, start |-> f.start, finish |-> f.finish,
      shift_end |-> f.shift_end ]

\* one call of finalize_picklist on the accumulator and what follows it in
\* the caller when it returns
OptFinalize ==
    LET f == finalize_picklist(items, picker_heap, summary, files,
                               CurKey[1], CurKey[2], picklist_id, now, hashseed)
    IN  /\ sealed' = Append(sealed, SealedRec(items, picklist_id))
        /\ picker_heap' = f.heap
        /\ summary' = f.summary
        /\ files' = f.files
        /\ assigned' = IF f.found THEN Append(assigned, AssignedRec(f, picklist_id))
                       ELSE assigned

\* while qty > 0, take > 0: append the item
OptAppend ==
    /\ impl = "optimized"
    /\ pc = "loop"
    /\ OptTake > 0
    /\ AppendTake(OptTake)
    /\ UNCHANGED <<impl, df, shifts, groups, gi, pl_seq, picklist_id, picker_heap,
                   summary, files, summary_csv, sealed, assigned, now, hashseed,
                   run, prev>>

\* while qty > 0, take <= 0: finalize the accumulator and retry the row
OptSeal ==
    /\ impl = "optimized"
    /\ pc = "loop"
    /\ OptTake <= 0
    /\ OptFinalize
    /\ IF items = <<>>
       THEN /\ pc' = "raised"
            /\ UNCHANGED <<picklist_id, items, cur_units, cur_weight>>
       ELSE /\ picklist_id' = picklist_id + 1
            /\ items' = <<>>
            /\ cur_units' = 0
            /\ cur_weight' = 0
            /\ UNCHANGED pc
    /\ UNCHANGED <<impl, df, shifts, groups, gi, ri, qty, pl_seq, summary_csv,
                   now, hashseed, run, prev>>

\* after the rows of a group: finalize what is left, go to the next group;
\* after the last group write Summary.csv
OptGroupEnd ==
    /\ impl = "optimized"
    /\ pc = "groupend"
    /\ IF items # <<>>
       THEN /\ OptFinalize
            /\ picklist_id' = picklist_id + 1
       ELSE UNCHANGED <<sealed, picker_heap, summary, files, assigned, picklist_id>>
    /\ NextGroup(summary')
    /\ IF gi < Len(groups) THEN TRUE ELSE UNCHANGED <<items, cur_units, cur_weight>>
    /\ UNCHANGED <<impl, df, shifts, groups, pl_seq, now, hashseed, run, prev>>


----------------------------------------------------------------------------
(* The baseline script: generate_picklists / process_zone_group *)

\* max_by_weight = int((cap_weight - cur_weight) // unit_wt), raised to 0 when
\* negative; `remaining` when the unit weighs nothing
MaxByWeightBaseline(space_weight, unit_wt, remaining) ==
    IF unit_wt > 0
    THEN (IF space_weight \div unit_wt < 0 THEN 0 ELSE space_weight \div unit_wt)
    ELSE remaining

\* take = min(remaining, space_units,
\*            max_by_weight if max_by_weight > 0 else remaining)
TakeBaseline(remaining, units, weight, cap, unit_wt) ==
    LET max_by_weight == MaxByWeightBaseline(cap - weight, unit_wt, remaining)
    IN  Min2(remaining, Min2(MAX_UNITS - units,
             IF max_by_weight > 0 THEN max_by_weight ELSE remaining))

BaseTakeUnits == TakeBaseline(qty, cur_units, cur_weight, CapWeight(CurKey[2]), CurRow.weight)

FnameBaseline(t, zone_name, seq) == <<DateOf(t), "ZONE", zone_name, "PL", seq>>

SummaryRowBaseline(its, zone_name, fragile_flag, seq, units, weight, t) ==
    [ picklist_file   |-> FnameBaseline(t, zone_name, seq),
      zone            |-> zone_name,
      picklist_no     |-> seq,
      picklist_type   |-> PicklistType(fragile_flag),
      total_units     |-> units,
      total_weight    |-> weight,
      distinct_orders |-> DistinctOrders(its),
      distinct_bins   |-> DistinctBins(its),
      earliest_cutoff |-> EarliestCutoff(its),
      created_at      |-> t ]

\* flush_current(), its outputs: nothing when the accumulator is empty;
\* otherwise write the CSV of picklist pl_seq + 1 and append its summary row
FlushOut ==
    IF items = <<>>
    THEN UNCHANGED <<files, summary, sealed>>
    ELSE /\ files' = WriteFile(files, FnameBaseline(now, CurKey[1], pl_seq + 1), items)
         /\ summary' = Append(summary,
                SummaryRowBaseline(items, CurKey[1], CurKey[2], pl_seq + 1,
                                   cur_units, cur_weight, now))
         /\ sealed' = Append(sealed, SealedRec(items, Len(summary) + 1))

\* flush_current(), its reset of the accumulator and its count
FlushReset ==
    IF items = <<>>
    THEN UNCHANGED <<items, cur_units, cur_weight, pl_seq>>
    ELSE /\ pl_seq' = pl_seq + 1
         /\ items' = <<>>
         /\ cur_units' = 0
         /\ cur_weight' = 0

FlushCurrent == FlushOut /\ FlushReset

\* while remaining > 0, space_units <= 0: flush and retry the row
BaseFlush ==
    /\ impl = "baseline"
    /\ pc = "loop"
    /\ MAX_UNITS - cur_units <= 0
    /\ FlushCurrent
    /\ UNCHANGED <<impl, df, shifts, groups, gi, ri, qty, picklist_id, picker_heap,
                   summary_csv, assigned, now, hashseed, run, prev, pc>>

\* while remaining > 0, space_units > 0: compute take; when it is <= 0 force
\* one unit into an empty accumulator or flush a non-empty one; else append
BaseTake ==
    /\ impl = "baseline"
    /\ pc = "loop"
    /\ MAX_UNITS - cur_units > 0
    /\ IF BaseTakeUnits <= 0
       THEN IF items = <<>>
            THEN /\ AppendTake(1)
                 /\ UNCHANGED <<pl_seq, files, summary, sealed>>
            ELSE /\ FlushCurrent
                 /\ UNCHANGED <<ri, qty, pc>>
       ELSE /\ AppendTake(BaseTakeUnits)
            /\ UNCHANGED <<pl_seq, files, summary, sealed>>
    /\ UNCHANGED <<impl, df, shifts, groups, gi, picklist_id, picker_heap,
                   summary_csv, assigned, now, hashseed, run, prev>>

\* s_df.sort_values(by=["earliest_cutoff", "zone", "picklist_no"])
SummarySortKey(r) == <<r.earliest_cutoff, r.zone, r.picklist_no>>

\* after the rows of a group: flush what is left, go to the next group (a new
\* call of process_zone_group); after the last group sort the summary rows
\* and write Summary.csv
BaseGroupEnd ==
    /\ impl = "baseline"
    /\ pc = "groupend"
    /\ FlushOut
    /\ NextGroup(SortBy(summary',
                        [ i \in 1..Len(summary') |-> SummarySortKey(summary'[i]) ]))
    /\ IF gi < Len(groups) THEN pl_seq' = 0 ELSE FlushReset
    /\ UNCHANGED <<impl, df, shifts, groups, picklist_id, picker_heap, assigned,
                   now, hashseed, run, prev>>

----------------------------------------------------------------------------
(* Inputs and initial states *)

\* the lines of an input, labelled with their row number
Labelled(shapes) ==
    [ i \in 1..Len(shapes) |->
        [ line |-> i, order_id |-> shapes[i].order_id, store |-> shapes[i].store,
          zone |-> shapes[i].zone, bin |-> shapes[i].bin, qty |-> shapes[i].qty,
          weight |-> shapes[i].weight, cutoff |-> shapes[i].cutoff,
          priority |-> shapes[i].priority, fragile |-> shapes[i].fragile ] ]

InputsOver(Shapes) == UNION { [1..n -> Shapes] : n \in 1..MaxLines }

\* the state on entering the loop over the groups
InitWith(im, input, roster, t, seed) ==
    /\ impl = im
    /\ df = SortValues(im, input)
    /\ shifts = roster
    /\ groups = GroupKeys(im, SortValues(im, input))
    /\ gi = 1
    /\ ri = 1
    /\ qty = GroupRows(SortValues(im, input), GroupKeys(im, SortValues(im, input))[1])[1].qty
    /\ items = <<>>
    /\ cur_units = 0
    /\ cur_weight = 0
    /\ pl_seq = 0
    /\ picklist_id = 0
    /\ picker_heap = IF im = "optimized"
                     THEN init_pickers(roster, BaseDate(SortValues(im, input)))
                     ELSE {}
    /\ summary = <<>>
    /\ files = <<>>
    /\ summary_csv = <<>>
    /\ sealed = <<>>
    /\ assigned = <<>>
    /\ now = t
    /\ hashseed = seed
    /\ run = 1
    /\ prev = <<>>
    /\ pc = "loop"

\* quantities of the weightless lines (the unit cap alone limits them) and
\* quantity and unit weight of the weighted lines
WeightlessQtys == { 1000, 800, 500 }
QtyWeights == { <<100, 1>>, <<30, 3>>, <<1, 1000>>, <<2, 1000>> }

BuildShape(q, w, f) ==
    [ order_id |-> 1, store |-> 1, zone |-> 1, bin |-> 1, qty |-> q,
      weight |-> w, cutoff |-> Clock(12, 0), priority |-> 1, fragile |-> f ]

BuildShapes ==
    { BuildShape(q, 0, FALSE) : q \in WeightlessQtys }
    \cup { BuildShape(qw[1], qw[2], f) : qw \in QtyWeights, f \in BOOLEAN }

Impls == { "baseline", "optimized" }

RosterOf(im) == IF im = "optimized" THEN PICKER_SHIFTS ELSE <<>>

InitBuild ==
    \E im \in Impls, shapes \in InputsOver(BuildShapes) :
        InitWith(im, Labelled(shapes), RosterOf(im), 0, 0)

\* shift rosters small enough for the pool to run dry
ShortShift == [name |-> "Short", start |-> Clock(8, 0),  end |-> Clock(8, 6), count |-> 1]
LongShift  == [name |-> "Long",  start |-> Clock(8, 0),  end |-> Clock(11, 0), count |-> 2]
NightShift == [name |-> "Night", start |-> Clock(22, 0), end |-> Clock(1, 0), count |-> 1]

RosterSet ==
    { <<>>, <<ShortShift>>, <<LongShift>>, <<ShortShift, LongShift>>,
      <<NightShift, ShortShift>> }

\* cutoffs before, exactly at and after the finish of a one-unit picklist that
\* starts at 08:00 (08:05:05), the last one on the next day
CutoffSet == { Clock(8, 3), Clock(8, 5) + 5, DaySeconds + Clock(1, 0) }

SchedShapes ==
    { [ order_id |-> 1, store |-> 1, zone |-> z, bin |-> 1, qty |-> q,
        weight |-> 0, cutoff |-> c, priority |-> 1, fragile |-> FALSE ]
      : z \in {1, 2}, q \in {1, MAX_UNITS}, c \in CutoffSet }

RostersOf(im) == IF im = "optimized" THEN RosterSet ELSE { <<>> }

InitSched ==
    \E im \in Impls, shapes \in InputsOver(SchedShapes) :
        \E roster \in RostersOf(im) :
            InitWith(im, Labelled(shapes), roster, 0, 0)

\* lines of two orders from two stores, small and picklist-filling
RerunShapes ==
    { [ order_id |-> s, store |-> s, zone |-> 1, bin |-> 1, qty |-> q,
        weight |-> 0, cutoff |-> Clock(12, 0), priority |-> 1, fragile |-> FALSE ]
      : s \in {1, 2}, q \in {1, MAX_UNITS} }

RerunRosters(im) == IF im = "optimized" THEN { <<ShortShift>>, <<LongShift>> } ELSE { <<>> }

HashSeeds == {0, 1}

InitRerun ==
    \E im \in Impls, shapes \in InputsOver(RerunShapes), seed \in HashSeeds :
        \E roster \in RerunRosters(im) :
            InitWith(im, Labelled(shapes), roster, 0, seed)

\* lines of two zones, both fragile classes and two cutoffs; the lines of a
\* file differ by their position in it: order ids descend, priorities and
\* bins alternate, the odd lines hold a few units of 30 kg and the
\* even lines a full picklist of weightless units
MixCutoffs == { Clock(9, 0), Clock(15, 0) }
MixKeys == { <<z, f, c>> : z \in {1, 2}, f \in BOOLEAN, c \in MixCutoffs }

MixLine(i, n, k) ==
    [ line |-> i, order_id |-> n + 1 - i, store |-> 1, zone |-> k[1],
      bin |-> 1 + (i % 2),
      qty |-> IF i % 2 = 0 THEN MAX_UNITS ELSE i + 1,
      weight |-> IF i % 2 = 0 THEN 0 ELSE 30,
      cutoff |-> k[3], priority |-> i % 2, fragile |-> k[2] ]

MixInputs ==
    UNION { { [ i \in 1..n |-> MixLine(i, n, ks[i]) ] : ks \in [1..n -> MixKeys] }
            : n \in 1..MaxLines }

MixRoster(im) == IF im = "optimized" THEN <<LongShift>> ELSE <<>>

InitMix ==
    \E im \in Impls, input \in MixInputs :
        InitWith(im, input, MixRoster(im), 0, 0)

\* the wall clock moves on while the scripts run and between two runs
Tick ==
    /\ now < MaxNow
    /\ ~(run = 2 /\ pc \in {"done", "raised"})
    /\ now' = now + 1
    /\ UNCHANGED <<impl, df, shifts, groups, gi, ri, qty, items, cur_units,
                   cur_weight, pl_seq, picklist_id, picker_heap, summary, files,
                   summary_csv, sealed, assigned, hashseed, run, prev, pc>>

\* what a finished run produced
Outputs ==
    [ sealed |-> sealed, assigned |-> assigned, summary_csv |-> summary_csv, pc |-> pc ]

\* the script is started again on the same input and configuration, in a new
\* process (new hash seed) and with the output directory as the first run left it
Rerun ==
    /\ run = 1
    /\ pc \in {"done", "raised"}
    /\ run' = 2
    /\ prev' = Outputs
    /\ \E seed \in HashSeeds : hashseed' = seed
    /\ df' = SortValues(impl, df)
    /\ groups' = GroupKeys(impl, SortValues(impl, df))
    /\ gi' = 1
    /\ ri' = 1
    /\ qty' = GroupRows(SortValues(impl, df), GroupKeys(impl, SortValues(impl, df))[1])[1].qty
    /\ items' = <<>>
    /\ cur_units' = 0
    /\ cur_weight' = 0
    /\ pl_seq' = 0
    /\ picklist_id' = 0
    /\ picker_heap' = IF impl = "optimized"
                      THEN init_pickers(shifts, BaseDate(SortValues(impl, df)))
                      ELSE {}
    /\ summary' = <<>>
    /\ sealed' = <<>>
    /\ assigned' = <<>>
    /\ pc' = "loop"
    /\ UNCHANGED <<impl, shifts, files, summary_csv, now>>

Next ==
    \/ OptAppend
    \/ OptSeal
    \/ OptGroupEnd
    \/ BaseFlush
    \/ BaseTake
    \/ BaseGroupEnd

SpecBuild == InitBuild /\ [][Next]_vars

SpecSched == InitSched /\ [][Next]_vars

NextRerun == Next \/ Tick \/ Rerun

SpecRerun == InitRerun /\ [][NextRerun]_vars

SpecMix == InitMix /\ [][Next]_vars

----------------------------------------------------------------------------
(* Properties *)

\* the picklists sealed so far that hold at least one item
SealedIdx == { k \in 1..Len(sealed) : sealed[k].items # <<>> }

\* units and weight within the caps, or the one allowed exception: a picklist
\* of a single forced unit that alone outweighs the cap
WithinCaps(its, units, weight, fragile) ==
    /\ units <= MAX_UNITS
    /\ \/ weight <= CapWeight(fragile)
       \/ /\ Len(its) = 1
          /\ its[1].qty = 1
          /\ its[1].unit_weight > CapWeight(fragile)

\* C1: every sealed picklist has total_units <= MAX_UNITS and total_weight <=
\* the weight cap of its group (50 fragile, 200 normal), except a picklist of
\* one forced single unit heavier than the cap; the open accumulator obeys
\* the same bounds after every append.
C1_CapacityInvariant ==
    /\ \A k \in SealedIdx :
          WithinCaps(sealed[k].items, sealed[k].total_units,
                     sealed[k].total_weight, sealed[k].fragile)
    /\ pc \in {"loop", "groupend"} =>
          WithinCaps(items, cur_units, cur_weight, CurKey[2])

\* the item rows on disk: <<file name, position in the file>>
WrittenRows == UNION { { <<f, j>> : j \in 1..Len(files[f]) } : f \in DOMAIN files }

\* units of one order line found in the picklist files
EmittedQty(line) ==
    LET rows == { r \in WrittenRows : files[r[1]][r[2]].line = line }
    IN  SumFn(rows, [ r \in rows |-> files[r[1]][r[2]].qty ])

\* C2: once all groups are processed, the quantities of the picklist items
\* cut from an order line, over all emitted picklists, add up to the line's
\* quantity: no unit dropped, none duplicated.
C2_Conservation ==
    pc = "done" => \A i \in 1..Len(df) : EmittedQty(df[i].line) = df[i].qty

\* the sealed picklist k got no picker
Unassigned(k) == \A j \in 1..Len(assigned) : assigned[j].id # sealed[k].id

\* the summary rows of picklist id (optimized: the id is in the file name)
RowsOf(id) == { j \in 1..Len(summary) : summary[j].picklist_file[3] = id }

\* C3: a picklist for which finalize_picklist finds no fitting picker is still
\* emitted: its item rows are written and exactly one summary row is appended
\* for it, with no finish time and valid_units = 0.
C3_UnassignedEmitted ==
    impl = "optimized" =>
        \A k \in SealedIdx :
            Unassigned(k) =>
                /\ \E f \in DOMAIN files : f[3] = sealed[k].id /\ files[f] = sealed[k].items
                /\ Cardinality(RowsOf(sealed[k].id)) = 1
                /\ \A j \in RowsOf(sealed[k].id) :
                      /\ summary[j].valid_units = 0
                      /\ "finish_time" \notin DOMAIN summary[j]

\* every picklist built so far: the sealed ones in order, then the open
\* accumulator while a group is being processed
Picklists ==
    [ k \in 1..Len(sealed) |-> [items |-> sealed[k].items, fragile |-> sealed[k].fragile] ]
    \o (IF pc \in {"loop", "groupend"} /\ items # <<>>
        THEN << [items |-> items, fragile |-> CurKey[2]] >> ELSE <<>>)

\* the item positions <<picklist, index>> of all picklists
ItemPos == UNION { { <<k, j>> : j \in 1..Len(Picklists[k].items) } : k \in 1..Len(Picklists) }

ItemAt(pos) == Picklists[pos[1]].items[pos[2]]

\* units and weight of a picklist up to and including its j-th item
PrefixUnits(pos) == TotalUnits(SubSeq(Picklists[pos[1]].items, 1, pos[2]))
PrefixWeight(pos) == TotalWeight(SubSeq(Picklists[pos[1]].items, 1, pos[2]))

\* C4: with an empty accumulator and a unit heavier than the whole cap, the
\* builder appends an item of exactly one unit, raises nothing and seals no
\* empty picklist; a line of quantity 1 ends up as a picklist of that 1 unit.
C4_ForcedSingleUnit ==
    /\ pc # "raised"
    /\ \A k \in 1..Len(sealed) : sealed[k].items # <<>>
    /\ \A pos \in ItemPos :
          ItemAt(pos).unit_weight > CapWeight(Picklists[pos[1]].fragile) =>
              ItemAt(pos).qty = 1
    /\ (pc = "done" /\ Len(df) = 1 /\ df[1].qty = 1
          /\ df[1].weight > CapWeight(df[1].fragile)) =>
              /\ Len(sealed) = 1
              /\ Len(sealed[1].items) = 1
              /\ sealed[1].total_units = 1
              /\ sealed[1].total_weight > CapWeight(df[1].fragile)

\* the reservation just accepted, if the step accepted one
Accepted ==
    IF Len(assigned') = Len(assigned) + 1 THEN { assigned'[Len(assigned')] } ELSE {}

\* C5: a picker's available_at never decreases and changes only when that
\* picker accepts a picklist (to the finish of that picklist); every accepted
\* finish is within the picker's shift_end, so available_at <= shift_end for
\* every picker in the pool.
C5_PickerMonotone ==
    /\ [](/\ \A p \in picker_heap : p[1] <= p[3]
          /\ \A j \in 1..Len(assigned) : assigned[j].finish <= assigned[j].shift_end)
    /\ [][ \A q \in picker_heap' :
              \E p \in picker_heap :
                  /\ p[2] = q[2]
                  /\ p[3] = q[3]
                  /\ p[1] <= q[1]
                  /\ p[1] # q[1] =>
                        \E a \in Accepted :
                            a.pid = q[2] /\ a.start = p[1] /\ a.finish = q[1] ]_vars

\* some picker has accepted two picklists, the second from where the first ended
C5_Witness ==
    \E i, j \in 1..Len(assigned) :
        /\ i < j
        /\ assigned[i].pid = assigned[j].pid
        /\ assigned[j].start = assigned[i].finish
        /\ \E p \in picker_heap : p[2] = assigned[j].pid /\ p[1] = assigned[j].finish

\* the items of a written picklist that are due at or after t
DueFrom(its, t) == { i \in 1..Len(its) : its[i].cutoff >= t }

\* C6: valid_units of an assigned picklist is the quantity of exactly the
\* items whose cutoff is at or after the finish time (cutoff = finish is on
\* time), hence between 0 and total_units.
C6_ValidUnits ==
    impl = "optimized" =>
        \A j \in 1..Len(summary) :
            LET row == summary[j]
                its == files[row.picklist_file]
                due == DueFrom(its, row.finish_time)
            IN  /\ row.valid_units = SumFn(due, [ i \in due |-> its[i].qty ])
                /\ 0 <= row.valid_units
                /\ row.valid_units <= row.total_units
                /\ row.total_units = TotalUnits(its)
                /\ \E a \in Range(assigned) :
                      a.id = row.picklist_file[3] /\ a.finish = row.finish_time

\* one picklist finished between the cutoffs of two of its items and counts
\* only the one on time; another finished exactly at the cutoff of its item
\* and counts it
C6_Witness ==
    /\ impl = "optimized"
    /\ \E j \in 1..Len(summary) :
          LET its == files[summary[j].picklist_file] IN
          /\ \E a, b \in 1..Len(its) :
                /\ its[a].cutoff < summary[j].finish_time
                /\ its[b].cutoff > summary[j].finish_time
          /\ 0 < summary[j].valid_units
          /\ summary[j].valid_units < summary[j].total_units
    /\ \E j \in 1..Len(summary) :
          LET its == files[summary[j].picklist_file] IN
          /\ \A a \in 1..Len(its) : its[a].cutoff = summary[j].finish_time
          /\ summary[j].valid_units = summary[j].total_units

\* C7: no two picklists written in one run share an output file name.
C7_OneFilePerPicklist ==
    \A i, j \in 1..Len(summary) :
        i # j => summary[i].picklist_file # summary[j].picklist_file

\* the input of scenario B: one fragile line of 100 units at 1 kg
IsScenarioB ==
    Len(df) = 1 /\ df[1].fragile /\ df[1].qty = 100 /\ df[1].weight = 1

\* a summary row without what the wall clock and the hash seed put into it:
\* the date in the file name, created_at, the order of the store ids
Masked(r) ==
    IF "created_at" \in DOMAIN r
    THEN [ r EXCEPT !.picklist_file = Tail(@), !.created_at = 0 ]
    ELSE [ r EXCEPT !.picklist_file = Tail(@), !.stores_in_picklist = Range(@) ]

MaskedRows(rows) == [ i \in 1..Len(rows) |-> Masked(rows[i]) ]

SecondRunEnded == run = 2 /\ pc \in {"done", "raised"}

\* C8 (as claimed): a second run on the same input, configuration and roster
\* produces identical picklists, assignments and finish times and identical
\* summary rows, field for field.
C8_Deterministic ==
    SecondRunEnded =>
        /\ pc = prev.pc
        /\ sealed = prev.sealed
        /\ assigned = prev.assigned
        /\ pc = "done" => summary_csv = prev.summary_csv

\* C8 (amended): the two runs agree on the picklists (items and their order),
\* on the assignments and finish times, and on every summary field except
\* the date in picklist_file, created_at and the order of the ids inside
\* stores_in_picklist.
C8_DeterministicButClock ==
    SecondRunEnded =>
        /\ pc = prev.pc
        /\ sealed = prev.sealed
        /\ assigned = prev.assigned
        /\ pc = "done" => MaskedRows(summary_csv) = MaskedRows(prev.summary_csv)

\* a second run ended with the same picklists and assignments but summary
\* rows that differ from the first run's
C8_Witness ==
    /\ SecondRunEnded
    /\ pc = "done"
    /\ Len(sealed) > 1
    /\ Len(assigned) > 0
    /\ summary_csv # prev.summary_csv
    /\ MaskedRows(summary_csv) = MaskedRows(prev.summary_csv)

\* C9: an item is never appended to a non-empty accumulator whose remaining
\* weight capacity is below one unit of the line: the accumulator is sealed
\* and the rest of the line goes to a fresh picklist; one fragile line of 100
\* units at 1 kg gives exactly two picklists of 50 units.
C9_WeightForcedSplit ==
    /\ \A pos \in ItemPos :
          (pos[2] > 1 /\ ItemAt(pos).unit_weight > 0) =>
              PrefixWeight(pos) <= CapWeight(Picklists[pos[1]].fragile)
    /\ (pc = "done" /\ IsScenarioB) =>
          /\ Len(sealed) = 2
          /\ sealed[1].total_units = 50
          /\ sealed[2].total_units = 50

\* quantity of the line of the item at pos allocated up to and including it
\* (items are allocated in the order of the picklists and of their items)
TakenUpTo(pos) ==
    LET before == { q \in ItemPos :
                      /\ ItemAt(q).line = ItemAt(pos).line
                      /\ (q[1] < pos[1] \/ (q[1] = pos[1] /\ q[2] <= pos[2])) }
    IN  SumFn(before, [ q \in before |-> ItemAt(q).qty ])

LineQty(line) == LET i == CHOOSE i \in 1..Len(df) : df[i].line = line IN df[i].qty

\* the line of the item at pos was cut there: it continues in a later item
SplitAt(pos) == TakenUpTo(pos) < LineQty(ItemAt(pos).line)

\* no further unit of weight w fits a picklist of that class holding
\* `units` units and `weight` kg
NoRoom(units, weight, fragile, w) ==
    units = MAX_UNITS \/ CapWeight(fragile) - weight < w

\* the input of scenario A: non-fragile lines of 1000, 800 and 500 weightless
\* units in one group
IsScenarioA ==
    /\ Len(df) = 3
    /\ df[1].qty = 1000 /\ df[2].qty = 800 /\ df[3].qty = 500
    /\ \A i \in 1..3 : ~df[i].fragile /\ df[i].weight = 0 /\ df[i].zone = df[1].zone

ItemQtys(its) == [ i \in 1..Len(its) |-> its[i].qty ]

\* C10: a picklist is sealed before its group is exhausted only when the
\* next unit cannot fit (units at MAX_UNITS, or less weight capacity left
\* than that unit weighs), and a line is cut only where no further unit
\* of it fits; lines of 1000, 800 and 500 weightless units give a picklist
\* of 1000 + 800 + 200 and one of the remaining 300.
C10_GreedyMaximalFill ==
    /\ \A k \in 1..Len(sealed) :
          sealed[k].midgroup =>
              NoRoom(sealed[k].total_units, sealed[k].total_weight,
                     sealed[k].fragile, sealed[k].next_weight)
    /\ \A pos \in ItemPos :
          SplitAt(pos) =>
              NoRoom(PrefixUnits(pos), PrefixWeight(pos),
                     Picklists[pos[1]].fragile, ItemAt(pos).unit_weight)
    /\ (pc = "done" /\ IsScenarioA) =>
          /\ Len(sealed) = 2
          /\ ItemQtys(sealed[1].items) = <<1000, 800, 200>>
          /\ ItemQtys(sealed[2].items) = <<300>>

\* scenario A has run to its end, its third line cut at the full picklist
C10_Witness ==
    /\ pc = "done"
    /\ IsScenarioA
    /\ Len(sealed) = 2
    /\ sealed[1].midgroup
    /\ sealed[1].total_units = MAX_UNITS
    /\ sealed[2].items[1].line = sealed[1].items[3].line

\* units of an order line allocated to items so far, sealed or still open
Allocated(line) ==
    LET its == { q \in ItemPos : ItemAt(q).line = line }
    IN  SumFn(its, [ q \in its |-> ItemAt(q).qty ])

\* the step moved on in the input: a later group, a later row of the group,
\* or less left of the row
Advanced ==
    \/ gi' > gi
    \/ gi' = gi /\ ri' > ri
    \/ gi' = gi /\ ri' = ri /\ qty' < qty

\* the step sealed a picklist that holds at least one item
SealedNonEmpty ==
    /\ Len(sealed') = Len(sealed) + 1
    /\ sealed'[Len(sealed')].items # <<>>

\* C11: the allocation loop runs to normal completion, with every line's
\* quantity fully allocated, on every input (units heavier than the weight cap
\* included): nothing is raised, and every iteration of the while loop either
\* reduces the remaining quantity of the line or seals a non-empty picklist.
C11_BuilderTerminates ==
    /\ [](/\ pc # "raised"
          /\ pc = "done" => \A i \in 1..Len(df) : Allocated(df[i].line) = df[i].qty)
    /\ [][ pc = "loop" => (Advanced \/ SealedNonEmpty) ]_vars

\* the picker ids in a heap
Pids(heap) == { p[2] : p \in heap }

\* the pool as init_pickers built it
InitialPool == init_pickers(shifts, BaseDate(df))

\* the step is a call of finalize_picklist that gets as far as the heap
Finalizing == Len(sealed') = Len(sealed) + 1 /\ items # <<>> /\ impl = "optimized"

\* finish of the picker entry p if it took the picklist being finalized
CandidateFinish(p) == p[1] + estimate_picklist_time(items)

\* the entry of the heap that the accepted reservation a was made on
EntryOf(a) == <<a.start, a.pid, a.shift_end>>

\* p was popped by the call: every entry when none was accepted, else the
\* entries up to the accepted one
Popped(p) == \A a \in Accepted : p = EntryOf(a) \/ LexLess(p, EntryOf(a))

\* C12: a picker popped during a reservation that cannot finish the picklist
\* by its shift_end is not pushed back; a picker leaves the pool only that
\* way, never returns to it, and only a picker of the pool is ever assigned:
\* once discarded, a picker gets no later picklist of the run.
C12_PermanentDiscard ==
    [][ /\ Finalizing =>
              \A p \in picker_heap :
                  (Popped(p) /\ CandidateFinish(p) > p[3]) => p[2] \notin Pids(picker_heap')
        /\ \A p \in picker_heap :
              p[2] \notin Pids(picker_heap') =>
                  Finalizing /\ Popped(p) /\ CandidateFinish(p) > p[3]
        /\ Pids(picker_heap') \subseteq Pids(picker_heap)
        /\ \A a \in Accepted : a.pid \in Pids(picker_heap) ]_vars

\* the pickers of the initial pool that are no longer in the heap
Discarded == { p \in InitialPool : p[2] \notin Pids(picker_heap) }

\* when the picker pid became free for the last time
LastAvailable(p) ==
    LET done == { assigned[j].finish : j \in { i \in 1..Len(assigned) : assigned[i].pid = p[2] } }
    IN  IF done = {} THEN p[1] ELSE CHOOSE t \in done : \A u \in done : u <= t

\* the picklist finalized last would have fitted the rest of the shift of a
\* picker discarded by an earlier call, and went to another picker
C12_Witness ==
    /\ impl = "optimized"
    /\ Len(sealed) > 1
    /\ sealed[Len(sealed)].items # <<>>
    /\ \E d \in Discarded :
          /\ LastAvailable(d) + estimate_picklist_time(sealed[Len(sealed)].items) <= d[3]
          /\ \E j \in 1..Len(assigned) :
                assigned[j].id = sealed[Len(sealed)].id /\ assigned[j].pid # d[2]

\* q comes before p in the order (available_at, picker_id)
Earlier(q, p) == q[1] < p[1] \/ (q[1] = p[1] /\ q[2] < p[2])

\* C13: the picker that receives a picklist is the least member of the pool,
\* in the order (available_at, picker_id) and at the time of the call, that can
\* finish within its shift_end; the members before it are the ones the call
\* discards, and the members after it stay in the pool as they were.
C13_SelectionOrder ==
    [][ \A a \in Accepted :
            LET p == EntryOf(a) IN
            /\ p \in picker_heap
            /\ a.finish = CandidateFinish(p)
            /\ a.finish <= p[3]
            /\ \A q \in picker_heap :
                  Earlier(q, p) => (CandidateFinish(q) > q[3] /\ q[2] \notin Pids(picker_heap'))
            /\ \A q \in picker_heap : Earlier(p, q) => q \in picker_heap'
            /\ picker_heap' = { q \in picker_heap : Earlier(p, q) }
                                 \cup { <<a.finish, a.pid, a.shift_end>> } ]_vars

\* the first picklist went to a picker that had an earlier picker before it,
\* now discarded, and a picker of the same available_at and a higher id
\* after it, still in the pool untouched
C13_Witness ==
    /\ Len(assigned) = 1
    /\ \E d \in Discarded : Earlier(d, EntryOf(assigned[1]))
    /\ \E q \in picker_heap \cap InitialPool :
          q[1] = assigned[1].start /\ q[2] > assigned[1].pid

\* the reservations of one picker, as indices of `assigned` in call order
AssignmentsOf(id) == { j \in 1..Len(assigned) : assigned[j].pid = id }

\* the reservation of the same picker made last before reservation j
PreviousOf(j) ==
    LET before == { i \in AssignmentsOf(assigned[j].pid) : i < j }
    IN  IF before = {} THEN 0 ELSE CHOOSE i \in before : \A k \in before : k <= i

\* C14: the execution intervals of the picklists assigned to one picker do
\* not overlap: the first starts at the picker's shift_start, each later one
\* starts exactly at the finish of the picker's previous one, every interval
\* has positive length, and no picker id occurs twice in the pool.
C14_OneAtATime ==
    /\ \A p, q \in picker_heap : p[2] = q[2] => p = q
    /\ \A j \in 1..Len(assigned) :
          /\ assigned[j].start < assigned[j].finish
          /\ IF PreviousOf(j) = 0
             THEN \E p \in InitialPool :
                      p[2] = assigned[j].pid /\ p[1] = assigned[j].start
             ELSE assigned[j].start = assigned[PreviousOf(j)].finish
    /\ \A i, j \in 1..Len(assigned) :
          (i < j /\ assigned[i].pid = assigned[j].pid) =>
              assigned[i].finish <= assigned[j].start

\* one picker took two picklists back to back, the first from its
\* shift_start, while another picker of the pool took a picklist as well
C14_Witness ==
    \E i, j, m \in 1..Len(assigned) :
        /\ i < j
        /\ assigned[i].pid = assigned[j].pid
        /\ PreviousOf(i) = 0
        /\ PreviousOf(j) = i
        /\ assigned[j].start = assigned[i].finish
        /\ assigned[m].pid # assigned[i].pid
        /\ { assigned[i].pid, assigned[m].pid } \subseteq Pids(picker_heap)

\* the item positions <<picklist, index>> of the sealed picklists
SealedPos == UNION { { <<k, j>> : j \in 1..Len(sealed[k].items) } : k \in 1..Len(sealed) }

\* pos was emitted before pos2
EmittedBefore(pos, pos2) ==
    pos[1] < pos2[1] \/ (pos[1] = pos2[1] /\ pos[2] < pos2[2])

\* the two positions hold items of one (zone, fragile) group
SameGroup(pos, pos2) ==
    /\ sealed[pos[1]].zone = sealed[pos2[1]].zone
    /\ sealed[pos[1]].fragile = sealed[pos2[1]].fragile

\* the order line an item was cut from
RowOfLine(line) == df[CHOOSE i \in 1..Len(df) : df[i].line = line]

RowAt(pos) == RowOfLine(sealed[pos[1]].items[pos[2]].line)

\* the stream sorted by (cutoff_time, priority, order_id)
CanonStream ==
    SortBy(df, [ i \in 1..Len(df) |-> <<df[i].cutoff, df[i].priority, df[i].order_id>> ])

\* where the key (zone, fragile) first appears in that stream
FirstSeen(zone, fragile) ==
    MinOf({ i \in 1..Len(CanonStream) :
              CanonStream[i].zone = zone /\ CanonStream[i].fragile = fragile })

StreamIndex(line) == CHOOSE i \in 1..Len(CanonStream) : CanonStream[i].line = line

\* picklists are numbered as they are emitted and offered to the pool in
\* that order: the optimized ids count from 0, a baseline group's picklist
\* numbers count up
NumberedInEmissionOrder ==
    /\ impl = "optimized" =>
          /\ \A k \in 1..Len(sealed) : sealed[k].id = k - 1
          /\ \A i, j \in 1..Len(assigned) : i < j => assigned[i].id < assigned[j].id
    /\ impl = "baseline" =>
          \A i, j \in 1..Len(summary) :
              (/\ i < j
               /\ summary[i].zone = summary[j].zone
               /\ summary[i].picklist_type = summary[j].picklist_type) =>
                  summary[i].picklist_no < summary[j].picklist_no

\* C15 (as claimed): the groups are processed in the order in which their
\* keys first appear in the stream sorted by (cutoff_time, priority,
\* order_id), the lines of a group are taken in the order of that stream, and
\* the picklists are numbered and offered to the pool in emission order.
C15_FirstAppearanceOrder ==
    /\ \A k, k2 \in SealedIdx :
          k < k2 => FirstSeen(sealed[k].zone, sealed[k].fragile)
                        <= FirstSeen(sealed[k2].zone, sealed[k2].fragile)
    /\ \A pos, pos2 \in SealedPos :
          (EmittedBefore(pos, pos2) /\ SameGroup(pos, pos2)) =>
              StreamIndex(RowAt(pos).line) <= StreamIndex(RowAt(pos2).line)
    /\ NumberedInEmissionOrder

\* row a precedes row b in the order each script sorts its input in:
\* (cutoff_time, priority) in the optimized script, (cutoff_time, priority,
\* order_id) in the baseline, rows of equal key in the order of the file
SortedBefore(a, b) ==
    LET ka == IF impl = "optimized" THEN <<a.cutoff, a.priority>>
              ELSE <<a.cutoff, a.priority, a.order_id>>
        kb == IF impl = "optimized" THEN <<b.cutoff, b.priority>>
              ELSE <<b.cutoff, b.priority, b.order_id>>
    IN  LexLess(ka, kb) \/ (ka = kb /\ a.line < b.line)

\* C15 (amended): the groups are processed in ascending order of their keys,
\* (zone, fragile) with non-fragile first in the optimized script, all
\* non-fragile zones and then all fragile zones in the baseline; the lines of
\* a group are taken in the order of the script's sorted stream; the
\* picklists are numbered and offered to the pool in emission order.
C15_SortedKeyOrder ==
    /\ impl = "optimized" =>
          \A k, k2 \in SealedIdx :
              k < k2 =>
                  \/ sealed[k].zone < sealed[k2].zone
                  \/ /\ sealed[k].zone = sealed[k2].zone
                     /\ FragRank(sealed[k].fragile) <= FragRank(sealed[k2].fragile)
    /\ impl = "baseline" =>
          \A k, k2 \in SealedIdx :
              k < k2 =>
                  \/ FragRank(sealed[k].fragile) < FragRank(sealed[k2].fragile)
                  \/ /\ sealed[k].fragile = sealed[k2].fragile
                     /\ sealed[k].zone <= sealed[k2].zone
    /\ \A pos, pos2 \in SealedPos :
          (EmittedBefore(pos, pos2) /\ SameGroup(pos, pos2)) =>
              ~SortedBefore(RowAt(pos2), RowAt(pos))
    /\ NumberedInEmissionOrder

\* a finished run of the optimized script over three groups, processed in an
\* order that is not the order of first appearance, all picklists assigned
C15_Witness ==
    /\ impl = "optimized"
    /\ pc = "done"
    /\ Len(groups) = 3
    /\ Len(assigned) = Len(sealed)
    /\ \E k, k2 \in SealedIdx :
          /\ k < k2
          /\ FirstSeen(sealed[k].zone, sealed[k].fragile)
                > FirstSeen(sealed[k2].zone, sealed[k2].fragile)

\* midnight of the date of the earliest cutoff of the input
EarliestDate ==
    CHOOSE b \in { n * DaySeconds : n \in 0..2 } :
        LET first == MinOf({ df[i].cutoff : i \in 1..Len(df) })
        IN  b <= first /\ first < b + DaySeconds

\* the pickers whose ids fall to the k-th shift template
PickersOf(k) ==
    { p \in picker_heap :
        /\ CountBefore(shifts, k) <= p[2]
        /\ p[2] < CountBefore(shifts, k) + shifts[k].count }

\* no picklist has been finalized yet: the pool is as it was built
PoolUntouched == impl = "optimized" /\ sealed = <<>> /\ pc \in {"loop", "groupend"}

\* C16: the pool holds, for each shift template, exactly headcount pickers,
\* all ids distinct, with available_at = the start clock on the date of the
\* earliest cutoff and shift_end = the end clock on that date, a day later
\* when end <= start; so shift_start < shift_end <= shift_start + 24 h.
C16_PoolInitialised ==
    PoolUntouched =>
        /\ Cardinality(picker_heap) = SumSeq([ k \in 1..Len(shifts) |-> shifts[k].count ])
        /\ Cardinality(Pids(picker_heap)) = Cardinality(picker_heap)
        /\ \A p \in picker_heap : \E k \in 1..Len(shifts) : p \in PickersOf(k)
        /\ \A k \in 1..Len(shifts) :
              /\ Cardinality(PickersOf(k)) = shifts[k].count
              /\ \A p \in PickersOf(k) :
                    /\ p[1] = EarliestDate + shifts[k].start
                    /\ p[3] = IF shifts[k].end <= shifts[k].start
                              THEN EarliestDate + shifts[k].end + DaySeconds
                              ELSE EarliestDate + shifts[k].end
        /\ \A p \in picker_heap : p[1] < p[3] /\ p[3] <= p[1] + DaySeconds

\* a pool of an overnight and a day template, built for an input whose
\* earliest cutoff is on the second day
C16_Witness ==
    /\ PoolUntouched
    /\ Len(shifts) = 2
    /\ EarliestDate = DaySeconds
    /\ \E p \in PickersOf(1) : p[3] > EarliestDate + DaySeconds
    /\ \E p \in PickersOf(2) : p[3] < EarliestDate + DaySeconds

\* the sealed picklist a reservation was made for
SealedOf(j) == CHOOSE k \in 1..Len(sealed) : sealed[k].id = assigned[j].id

\* the aggregates of the sealed picklist k, counted over its item rows
UnitsIn(k) ==
    LET rows == 1..Len(sealed[k].items)
    IN  SumFn(rows, [ r \in rows |-> sealed[k].items[r].qty ])

BinsIn(k) == Cardinality({ sealed[k].items[r].bin : r \in 1..Len(sealed[k].items) })

OrdersIn(k) == Cardinality({ sealed[k].items[r].order_id : r \in 1..Len(sealed[k].items) })

\* the time a reservation blocks its picker for
Duration(j) == assigned[j].finish - assigned[j].start

\* C17: the execution time of every assigned picklist is ENTRY_TO_ZONE +
\* distinct_bins * 30 + total_units * 5 + ZONE_TO_STAGE + distinct_orders * 30
\* with the defaults 120 and 120; it is positive, equal for picklists of equal
\* distinct_bins, total_units and distinct_orders, and estimating changes
\* nothing of the picklist, which is written as it was sealed.
C17_ExecutionEstimate ==
    /\ <<ENTRY_TO_ZONE, BIN_TO_BIN, PICK_PER_UNIT, ZONE_TO_STAGE, UNLOAD_PER_ORDER>>
          = <<120, 30, 5, 120, 30>>
    /\ \A j \in 1..Len(assigned) :
          LET k == SealedOf(j) IN
          /\ Duration(j) = ENTRY_TO_ZONE + BinsIn(k) * BIN_TO_BIN
                             + UnitsIn(k) * PICK_PER_UNIT + ZONE_TO_STAGE
                             + OrdersIn(k) * UNLOAD_PER_ORDER
          /\ Duration(j) > 0
          /\ \E f \in DOMAIN files : f[3] = sealed[k].id /\ files[f] = sealed[k].items
    /\ \A i, j \in 1..Len(assigned) :
          (/\ BinsIn(SealedOf(i)) = BinsIn(SealedOf(j))
           /\ UnitsIn(SealedOf(i)) = UnitsIn(SealedOf(j))
           /\ OrdersIn(SealedOf(i)) = OrdersIn(SealedOf(j))) =>
              Duration(i) = Duration(j)

\* an assigned picklist of three item rows from three orders and two bins,
\* and a later one of other aggregates and another duration
C17_Witness ==
    \E i, j \in 1..Len(assigned) :
        /\ Len(sealed[SealedOf(i)].items) = 3
        /\ BinsIn(SealedOf(i)) = 2
        /\ OrdersIn(SealedOf(i)) = 3
        /\ UnitsIn(SealedOf(i)) = MAX_UNITS
        /\ UnitsIn(SealedOf(j)) < MAX_UNITS
        /\ Duration(i) > Duration(j)

\* the sealed picklist a summary row stands for
SealedOfRow(j) ==
    IF impl = "baseline" THEN j
    ELSE CHOOSE k \in 1..Len(sealed) : sealed[k].id = summary[j].picklist_file[3]

\* the weight cap of a fragile class
ClassCap(fragile) == IF fragile THEN 50 ELSE 200

\* the picklist at pos[1] has room for no further unit of the line at pos
\* once the item at pos is in it
FullAfter(pos) ==
    \/ PrefixUnits(pos) = MAX_UNITS
    \/ ClassCap(Picklists[pos[1]].fragile) - PrefixWeight(pos) < ItemAt(pos).unit_weight

\* C18: every item of a picklist, sealed or open, is cut from a line of the
\* picklist's own (zone, fragile) group; the zone and type recorded for it
\* are that key; and where a line is cut short of the unit limit, the room
\* left is below one unit under the cap of the picklist's own fragile class
\* (50 kg fragile, 200 kg normal).
C18_Homogeneous ==
    /\ \A pos \in SealedPos :
          /\ RowAt(pos).zone = sealed[pos[1]].zone
          /\ RowAt(pos).fragile = sealed[pos[1]].fragile
    /\ pc \in {"loop", "groupend"} =>
          \A j \in 1..Len(items) :
              /\ RowOfLine(items[j].line).zone = CurKey[1]
              /\ RowOfLine(items[j].line).fragile = CurKey[2]
    /\ \A j \in 1..Len(summary) :
          /\ summary[j].zone = sealed[SealedOfRow(j)].zone
          /\ summary[j].picklist_type = "fragile" <=> sealed[SealedOfRow(j)].fragile
          /\ summary[j].picklist_type \in {"fragile", "normal"}
    /\ \A pos \in ItemPos : SplitAt(pos) => FullAfter(pos)

\* a finished run of the optimized script over three groups of both zones
\* and both classes: a
\* fragile line was cut at the 50 kg cap and a normal picklist weighs more
\* than a fragile one may
C18_Witness ==
    /\ impl = "optimized"
    /\ pc = "done"
    /\ Len(groups) = 3
    /\ { sealed[k].zone : k \in SealedIdx } = {1, 2}
    /\ { sealed[k].fragile : k \in SealedIdx } = BOOLEAN
    /\ \E pos \in SealedPos :
          /\ sealed[pos[1]].fragile
          /\ SplitAt(pos)
          /\ PrefixUnits(pos) < MAX_UNITS
          /\ PrefixWeight(pos) <= 50
    /\ \E k \in SealedIdx : ~sealed[k].fragile /\ sealed[k].total_weight > 50

\* C19: a reservation that ends without a fit leaves the pool empty, the
\* pool never grows, and so once a picklist of the run is unassigned the pool
\* stays empty and every picklist finalized after it is unassigned as well.
C19_UnassignedAbsorbing ==
    /\ [](impl = "optimized" =>
             \A k \in SealedIdx :
                 Unassigned(k) =>
                     /\ picker_heap = {}
                     /\ \A k2 \in SealedIdx : k2 > k => Unassigned(k2))
    /\ [][ /\ Cardinality(picker_heap') <= Cardinality(picker_heap)
           /\ (Finalizing /\ Accepted = {}) => picker_heap' = {} ]_vars

\* two picklists in a row got no picker, the second one short enough for
\* the whole shift of a picker the pool started with
C19_Witness ==
    /\ impl = "optimized"
    /\ InitialPool # {}
    /\ \E k, k2 \in SealedIdx :
          /\ k < k2
          /\ Unassigned(k)
          /\ Unassigned(k2)
          /\ sealed[k2].total_units < sealed[k].total_units
          /\ \E p \in InitialPool :
                p[1] + estimate_picklist_time(sealed[k2].items) <= p[3]

====
